---- MODULE Spec2Model ----
(***************************************************************************)
(* Model of the in-process caching layer of src/src/cacheHelper.js:        *)
(*   - the four TTL namespaces of CACHE (tableStructures, mailboxIds,      *)
(*     userQuotas, systemStats) with their async get-or-load functions,    *)
(*   - the rate-limited sweep clearExpiredCache and clearAllCache,         *)
(*   - the class LRUCache behind emailContentCache.                        *)
(* Time is Date.now() in milliseconds, relative to module load.            *)
(***************************************************************************)
EXTENDS Integers, Sequences, FiniteSets, TLC

VARIABLES
    now,                \* the value Date.now() returns
    tableStructures,    \* CACHE.tableStructures : tableName -> {data, timestamp}
    mailboxIds,         \* CACHE.mailboxIds      : normalized address -> {id, timestamp}
    userQuotas,         \* CACHE.userQuotas      : userId -> {data, timestamp}
    systemStats,        \* CACHE.systemStats     : statKey -> {value, timestamp}
    lastClearTime,      \* CACHE.lastClearTime
    lru,                \* an LRUCache instance: capacity, ttl, cache (a Map, in insertion order)
    touchOrder,         \* ghost: the keys of lru.cache ordered by their last touch, oldest first
    db,                 \* the backing store the loaders read
    calls,              \* the async get-or-load calls: one slot per concurrent request
    passes,             \* ghost: the instants at which clearExpiredCache ran a sweep pass
    last                \* the step taken last (observation only)

vars == <<last, now, tableStructures, mailboxIds, userQuotas, systemStats, lastClearTime,
          lru, touchOrder, db, calls, passes>>

nsVars == <<tableStructures, mailboxIds, userQuotas, systemStats, lastClearTime, db, calls,
           passes>>
lruVars == <<lru, touchOrder>>

-----------------------------------------------------------------------------
(* Bounds of the exploration *)

MaxCapacity == 3        \* LRUCache capacities explored: 1..MaxCapacity
MaxEmailId == 4         \* email ids used as LRU keys: 1..MaxEmailId
MaxCalls == 2           \* slots for get-or-load calls

-----------------------------------------------------------------------------
(* Program constants *)

Minute == 60 * 1000

CACHE_TTL_tableStructure == 60 * 60 * 1000
CACHE_TTL_mailboxId == 10 * 60 * 1000
CACHE_TTL_userQuota == 5 * 60 * 1000
CACHE_TTL_systemStats == 10 * 60 * 1000
CACHE_TTL_clearInterval == 30 * 60 * 1000

EmailContentTtl == 3600000

\* JavaScript null / undefined as returned to callers
Null == "null"

\* The instants at which the runs explored read the clock, per specification.
\* Loads: each TTL (5, 10, 10, 60 minutes) is met exactly, undershot and overshot
\* by the age of some entry: 5 = 5-0, 10 = 10-0, 60 = 60-0, 55 = 60-5, 65 = 65-0.
LoadClockReadings == {0, 5 * Minute, 10 * Minute, 60 * Minute, 65 * Minute}

\* Address ids: ages 5 (fresh), 10 (exactly the TTL) and 15 minutes.
MailboxClockReadings == {0, 5 * Minute, 10 * Minute, 15 * Minute}

\* Sweeps: the interval of 30 minutes is met exactly (35 to 65), undershot (30 to
\* 35) and overshot (30 to 65); entries reach ages beyond every TTL.
SweepClockReadings == {0, 30 * Minute, 35 * Minute, 65 * Minute}

\* The readings in the runs of the LRU store: its TTL is met exactly (5 to 65
\* minutes), undershot (0 to 5) and overshot (0 to 65).
LruClockReadings == {0, 5 * Minute, 65 * Minute}

-----------------------------------------------------------------------------
(* The observation of a step, kept in the variable last *)

\* the record of a step: the operation and the namespace, then the key and the
\* result, whose shapes depend on those two
Event(op, ns, key, res) == [op |-> op, ns |-> ns, key |-> key, res |-> res]

-----------------------------------------------------------------------------
(* A JavaScript Map that keeps insertion order: a sequence of entries, each   *)
(* [key, value, timestamp], with no key twice.                                *)

SeqKeys(m) == {m[i].key : i \in 1..Len(m)}

MapHas(m, k) == \E i \in 1..Len(m) : m[i].key = k

MapGet(m, k) == LET i == CHOOSE j \in 1..Len(m) : m[j].key = k IN m[i]

MapDelete(m, k) == SelectSeq(m, LAMBDA e : e.key # k)

\* Map.prototype.set: an existing key keeps its position, a new key goes last
MapSet(m, k, e) ==
    IF MapHas(m, k)
    THEN [i \in 1..Len(m) |-> IF m[i].key = k THEN e ELSE m[i]]
    ELSE Append(m, e)

KeyOrder(m) == [i \in 1..Len(m) |-> m[i].key]

\* Map.prototype.keys().next().value: the first key, undefined on an empty Map
FirstKey(m) == IF Len(m) = 0 THEN Null ELSE m[1].key

-----------------------------------------------------------------------------
(* class LRUCache *)

EmailIds == 1..MaxEmailId
Contents == {"text"}

\* `email_content_${emailId}`
EmailKey(emailId) == <<"email_content_", emailId>>

LruKeys == {EmailKey(i) : i \in EmailIds}

\* LRUCache.get that forgets the recency bump of lines 280-281
LRU_get_noBump(c, t, key) ==
    IF ~MapHas(c.cache, key)
    THEN [cache |-> c.cache, result |-> Null]
    ELSE LET item == MapGet(c.cache, key) IN
         IF t - item.timestamp > c.ttl
         THEN [cache |-> MapDelete(c.cache, key), result |-> Null]
         ELSE [cache |-> c.cache, result |-> item.value]

\* LRUCache.get that reports an expired entry absent but leaves it in the Map
LRU_get_keepsExpired(c, t, key) ==
    IF ~MapHas(c.cache, key)
    THEN [cache |-> c.cache, result |-> Null]
    ELSE LET item == MapGet(c.cache, key) IN
         IF t - item.timestamp > c.ttl
         THEN [cache |-> c.cache, result |-> Null]
         ELSE [cache |-> MapSet(MapDelete(c.cache, key), key, item),
               result |-> item.value]

\* LRUCache.get that restarts the lifetime of the entry it returns
LRU_get_refreshes(c, t, key) ==
    IF ~MapHas(c.cache, key)
    THEN [cache |-> c.cache, result |-> Null]
    ELSE LET item == MapGet(c.cache, key) IN
         IF t - item.timestamp > c.ttl
         THEN [cache |-> MapDelete(c.cache, key), result |-> Null]
         ELSE [cache |-> MapSet(MapDelete(c.cache, key), key,
                                [item EXCEPT !.timestamp = t]),
               result |-> item.value]

\* LRUCache.get: [cache |-> the Map afterwards, result |-> the value returned]
LRU_get(c, t, key) ==
    IF ~MapHas(c.cache, key)
    THEN [cache |-> c.cache, result |-> Null]
    ELSE LET item == MapGet(c.cache, key) IN
         IF t - item.timestamp > c.ttl
         THEN [cache |-> MapDelete(c.cache, key), result |-> Null]
         ELSE [cache |-> MapSet(MapDelete(c.cache, key), key, item),
               result |-> item.value]

\* LRUCache.set with the capacity test of line 298 off by one (> for >=)
LRU_set_offByOne(c, t, key, value) ==
    LET c1 == IF MapHas(c.cache, key) THEN MapDelete(c.cache, key) ELSE c.cache
        c2 == IF Len(c1) > c.capacity THEN MapDelete(c1, FirstKey(c1)) ELSE c1
    IN  MapSet(c2, key, [key |-> key, value |-> value, timestamp |-> t])

\* LRUCache.set that evicts the newest key of the Map where line 299 takes the first
LRU_set_evictsNewest(c, t, key, value) ==
    LET c1 == IF MapHas(c.cache, key) THEN MapDelete(c.cache, key) ELSE c.cache
        c2 == IF Len(c1) >= c.capacity THEN MapDelete(c1, c1[Len(c1)].key) ELSE c1
    IN  MapSet(c2, key, [key |-> key, value |-> value, timestamp |-> t])

\* LRUCache.set that, at capacity, evicts an expired entry when there is one
LRU_set_evictsExpiredFirst(c, t, key, value) ==
    LET c1 == IF MapHas(c.cache, key) THEN MapDelete(c.cache, key) ELSE c.cache
        dead == SelectSeq(c1, LAMBDA e : t - e.timestamp > c.ttl)
        victim == IF Len(dead) > 0 THEN dead[1].key ELSE FirstKey(c1)
        c2 == IF Len(c1) >= c.capacity THEN MapDelete(c1, victim) ELSE c1
    IN  MapSet(c2, key, [key |-> key, value |-> value, timestamp |-> t])

\* LRUCache.set: the Map afterwards
LRU_set(c, t, key, value) ==
    LET c1 == IF MapHas(c.cache, key) THEN MapDelete(c.cache, key) ELSE c.cache
        c2 == IF Len(c1) >= c.capacity THEN MapDelete(c1, FirstKey(c1)) ELSE c1
    IN  MapSet(c2, key, [key |-> key, value |-> value, timestamp |-> t])

\* LRUCache.delete
LRU_delete(c, key) == MapDelete(c.cache, key)

\* LRUCache.clear
LRU_clear(c) == << >>

\* LRUCache.size
LRU_size(c) == Len(c.cache)

(* Ghost bookkeeping of touches, kept apart from the Map: a touch of k moves   *)
(* k to the newest end; keys that left the store leave the list.               *)
Touch(order, k) == Append(SelectSeq(order, LAMBDA x : x # k), k)
Restrict(order, keys) == SelectSeq(order, LAMBDA x : x \in keys)

LruGet(key) ==
    LET r == LRU_get(lru, now, key) IN
    /\ lru' = [lru EXCEPT !.cache = r.cache]
    /\ touchOrder' = IF r.result # Null
                     THEN Touch(touchOrder, key)
                     ELSE Restrict(touchOrder, SeqKeys(r.cache))
    /\ last' = Event("lru_get", "lru", key,
                     [result |-> r.result,
                      had |-> MapHas(lru.cache, key),
                      age |-> IF MapHas(lru.cache, key)
                              THEN now - MapGet(lru.cache, key).timestamp
                              ELSE 0,
                      before |-> touchOrder])
    /\ UNCHANGED <<now, nsVars>>

LruSet(key, value) ==
    LET c == LRU_set(lru, now, key, value) IN
    /\ lru' = [lru EXCEPT !.cache = c]
    /\ touchOrder' = Restrict(Touch(touchOrder, key), SeqKeys(c))
    /\ last' = Event("lru_set", "lru", key,
                     [value |-> value,
                      had |-> MapHas(lru.cache, key),
                      full |-> Len(lru.cache) >= lru.capacity,
                      before |-> touchOrder,
                      evicted |-> SeqKeys(lru.cache) \ SeqKeys(c),
                      evictedAge |-> {now - MapGet(lru.cache, k).timestamp :
                                         k \in SeqKeys(lru.cache) \ SeqKeys(c)}])
    /\ UNCHANGED <<now, nsVars>>

LruDelete(key) ==
    /\ lru' = [lru EXCEPT !.cache = LRU_delete(lru, key)]
    /\ touchOrder' = Restrict(touchOrder, SeqKeys(lru'.cache))
    /\ last' = Event("lru_delete", "lru", key, Null)
    /\ UNCHANGED <<now, nsVars>>

LruClear ==
    /\ lru' = [lru EXCEPT !.cache = LRU_clear(lru)]
    /\ touchOrder' = << >>
    /\ last' = Event("lru_clear", "lru", Null, Null)
    /\ UNCHANGED <<now, nsVars>>

-----------------------------------------------------------------------------
(* JavaScript values the functions receive *)

JsNull == [type |-> "null"]
JsStr(s) == [type |-> "string", chars |-> s]

\* an absent identifier: the `null` of line 91
NullId == -1

\* !id
Falsy(id) == id = NullId \/ id = 0

\* String(address || ''): null, undefined and '' all become ''
ToStr(a) == IF a.type = "null" THEN << >> ELSE a.chars

IsSpace(ch) == ch = " "

RECURSIVE TrimStart(_)
TrimStart(s) ==
    IF s # << >> /\ IsSpace(Head(s)) THEN TrimStart(Tail(s)) ELSE s

RECURSIVE TrimEnd(_)
TrimEnd(s) ==
    IF s # << >> /\ IsSpace(s[Len(s)]) THEN TrimEnd(SubSeq(s, 1, Len(s) - 1)) ELSE s

\* String.prototype.trim
Trim(s) == TrimEnd(TrimStart(s))

LowerChar(ch) == IF ch = "A" THEN "a" ELSE IF ch = "B" THEN "b" ELSE ch

\* String.prototype.toLowerCase
ToLowerCase(s) == [i \in 1..Len(s) |-> LowerChar(s[i])]

\* String(address || '').trim().toLowerCase()
Normalize(address) == ToLowerCase(Trim(ToStr(address)))

AddressInputs ==
    {JsNull} \cup {JsStr(s) : s \in {<< >>, <<" ">>, <<"a">>, <<" ", "A", " ">>, <<"B">>}}

\* the addresses of the runs that exercise all four namespaces together
LoadAddressInputs == {JsNull, JsStr(<<" ", "A", " ">>)}

MailboxKeys == {Normalize(a) : a \in AddressInputs} \ {<< >>}

UserIds == {1}
StatKeys == {"total_mailboxes"}
StatKeyInputs == {JsNull} \cup {JsStr(k) : k \in StatKeys}
TableNames == {"messages"}
ColumnNames == {"id", "text_content", "html_content"}
NoCol == "-"

-----------------------------------------------------------------------------
(* The namespaces: Maps whose order is never observed, as functions from the  *)
(* keys present to their entries.                                             *)

EmptyNs == [k \in {} |-> Null]
NsHas(m, k) == k \in DOMAIN m
NsSet(m, k, e) == [x \in (DOMAIN m) \cup {k} |-> IF x = k THEN e ELSE m[x]]
NsDelete_keeps(m, k) == m
NsDelete(m, k) == [x \in (DOMAIN m) \ {k} |-> m[x]]

\* the validity test of line 35 with <= for <
TableFresh_inclusive(m, k, t) ==
    NsHas(m, k) /\ (t - m[k].timestamp) <= CACHE_TTL_tableStructure

\* cached && (Date.now() - cached.timestamp) < CACHE_TTL.<namespace>
TableFresh(m, k, t) == NsHas(m, k) /\ (t - m[k].timestamp) < CACHE_TTL_tableStructure
MailboxFresh(m, k, t) == NsHas(m, k) /\ (t - m[k].timestamp) < CACHE_TTL_mailboxId
QuotaFresh(m, k, t) == NsHas(m, k) /\ (t - m[k].timestamp) < CACHE_TTL_userQuota
StatFresh(m, k, t) == NsHas(m, k) /\ (t - m[k].timestamp) < CACHE_TTL_systemStats

-----------------------------------------------------------------------------
(* The backing store *)

\* an id the store assigns to a created mailbox
MailboxRowId == 7
\* users.mailbox_limit of the one user row, when the row exists
NoRow == -2

\* PRAGMA table_info(messages): before and after the migration at the end of the file
BaseColumns == << [name |-> "id", notnull |-> 1] >>
MigratedColumns ==
    BaseColumns \o << [name |-> "email_content", notnull |-> 0],
                      [name |-> "text_content", notnull |-> 0],
                      [name |-> "html_content", notnull |-> 0] >>

DbColumns(d, tableName) == IF d.migrated THEN MigratedColumns ELSE BaseColumns

\* (res?.results || []).map(r => ({name, type, notnull: r.notnull ? 1 : 0, dflt_value}))
ToCols(rows) ==
    [i \in 1..Len(rows) |->
        [name |-> rows[i].name, notnull |-> IF rows[i].notnull # 0 THEN 1 ELSE 0]]

\* (res.results && res.results.length) ? res.results[0].id : null
MailboxIdOf(d, key) == d.mailboxes[key]

\* ures?.results?.[0]?.mailbox_limit ?? 10
LimitOf(row) == IF row = NoRow THEN 10 ELSE row

\* cres?.results?.[0]?.c || 0
UsedOf(d, userId) == Cardinality({k \in MailboxKeys : d.mailboxes[k] # NullId})

\* queryFn(db) for 'total_mailboxes': SELECT COUNT(1) FROM mailboxes
StatQuery(d, statKey) == Cardinality({k \in MailboxKeys : d.mailboxes[k] # NullId})

Ok(v) == [ok |-> TRUE, val |-> v]
Failure == [ok |-> FALSE, val |-> "db error"]

\* the caller's write path creates the mailbox row (getOrCreateMailboxId)
DbCreateMailbox(key) ==
    /\ db.mailboxes[key] = NullId
    /\ db' = [db EXCEPT !.mailboxes[key] = MailboxRowId]
    /\ last' = Event("db_write", "mailboxIds", key, Null)
    /\ UNCHANGED <<now, tableStructures, mailboxIds, userQuotas, systemStats,
                   lastClearTime, calls, passes, lruVars>>

\* the migration: ALTER TABLE messages ADD COLUMN ...
DbMigrate ==
    /\ ~db.migrated
    /\ db' = [db EXCEPT !.migrated = TRUE]
    /\ last' = Event("db_write", "tableStructures", "messages", Null)
    /\ UNCHANGED <<now, tableStructures, mailboxIds, userQuotas, systemStats,
                   lastClearTime, calls, passes, lruVars>>

-----------------------------------------------------------------------------
(* The async get-or-load functions.  A call runs synchronously up to its      *)
(* await, is suspended until the backing store answers, and then continues.   *)

Procs == 1..MaxCalls

\* observation: the invalidation or explicit set a call starts right after, if any
NoPreceding == Event("none", "none", Null, Null)
Preceding == IF last.op \in {"update", "invalidate", "invalidate_all"} THEN last ELSE NoPreceding

IdleCall == [fn |-> "none", key |-> Null, col |-> NoCol, pc |-> "idle", stage |-> 0,
             resp |-> Null, tmp |-> 0, cols |-> << >>, loads |-> 0, result |-> Null]

Free(p) == calls[p].pc \in {"idle", "returned", "threw"}

\* a call that returned from the cache, its loader never invoked
Returned(fn, key, col, result) ==
    [fn |-> fn, key |-> key, col |-> col, pc |-> "returned", stage |-> 0,
     resp |-> Null, tmp |-> 0, cols |-> << >>, loads |-> 0, result |-> result]

\* a call suspended at its await, its query sent to the backing store
Awaiting(fn, key, col) ==
    [fn |-> fn, key |-> key, col |-> col, pc |-> "await", stage |-> 1,
     resp |-> Null, tmp |-> 0, cols |-> << >>, loads |-> 1, result |-> Null]

\* cols.some(c => c.name === columnName)
HasColumnResult(cols, columnName) == \E i \in 1..Len(cols) : cols[i].name = columnName

\* getCachedTableStructure has handed cols to the caller: a direct call (col =
\* NoCol) has returned; hasColumn holds them at its await of line 70 and runs
\* line 71 in a later step
Handed(c, cols) ==
    IF c.col = NoCol
    THEN [c EXCEPT !.pc = "returned", !.result = cols, !.resp = Null, !.stage = 0]
    ELSE [c EXCEPT !.pc = "cols", !.cols = cols, !.resp = Null, !.stage = 0]

\* getCachedTableStructure (col = NoCol) or hasColumn, up to the await: of the
\* query on a miss, of the column list (hasColumn, line 70) on a hit
StartTable(p, tableName, col) ==
    /\ Free(p)
    /\ calls' = [calls EXCEPT ![p] =
          IF TableFresh(tableStructures, tableName, now)
          THEN Handed(Returned("table", tableName, col, Null),
                      tableStructures[tableName].data)
          ELSE Awaiting("table", tableName, col)]
    /\ last' = Event("start", "tableStructures", tableName, [p |-> p, after |-> Preceding])
    /\ UNCHANGED <<now, tableStructures, mailboxIds, userQuotas, systemStats,
                   lastClearTime, db, passes, lruVars>>

\* getCachedMailboxId, up to the await
StartMailbox(p, address) ==
    LET normalized == Normalize(address) IN
    /\ Free(p)
    /\ calls' = [calls EXCEPT ![p] =
          IF normalized = << >>
          THEN Returned("mailbox", normalized, NoCol, NullId)
          ELSE IF MailboxFresh(mailboxIds, normalized, now)
          THEN Returned("mailbox", normalized, NoCol, mailboxIds[normalized].id)
          ELSE Awaiting("mailbox", normalized, NoCol)]
    /\ last' = Event("start", "mailboxIds", normalized, [p |-> p, after |-> Preceding])
    /\ UNCHANGED <<now, tableStructures, mailboxIds, userQuotas, systemStats,
                   lastClearTime, db, passes, lruVars>>

\* getCachedUserQuota, up to the first await
StartQuota(p, userId) ==
    /\ Free(p)
    /\ calls' = [calls EXCEPT ![p] =
          IF QuotaFresh(userQuotas, userId, now)
          THEN Returned("quota", userId, NoCol, userQuotas[userId].data)
          ELSE Awaiting("quota", userId, NoCol)]
    /\ last' = Event("start", "userQuotas", userId, [p |-> p, after |-> Preceding])
    /\ UNCHANGED <<now, tableStructures, mailboxIds, userQuotas, systemStats,
                   lastClearTime, db, passes, lruVars>>

\* getCachedSystemStat, up to the await
StartStat(p, statKey) ==
    /\ Free(p)
    /\ calls' = [calls EXCEPT ![p] =
          IF StatFresh(systemStats, statKey, now)
          THEN Returned("stat", statKey, NoCol, systemStats[statKey].value)
          ELSE Awaiting("stat", statKey, NoCol)]
    /\ last' = Event("start", "systemStats", statKey, [p |-> p, after |-> Preceding])
    /\ UNCHANGED <<now, tableStructures, mailboxIds, userQuotas, systemStats,
                   lastClearTime, db, passes, lruVars>>

\* what the backing store answers to the query the call is waiting for
DbRead(d, c) ==
    CASE c.fn = "table" -> DbColumns(d, c.key)
      [] c.fn = "mailbox" -> MailboxIdOf(d, c.key)
      [] c.fn = "quota" /\ c.stage = 1 -> d.limit
      [] c.fn = "quota" /\ c.stage = 2 -> UsedOf(d, c.key)
      [] c.fn = "stat" -> StatQuery(d, c.key)

\* the backing store answers: the read succeeds or fails
DbAnswer(p, mayFail) ==
    /\ calls[p].pc = "await"
    /\ \E r \in {Ok(DbRead(db, calls[p]))} \cup (IF mayFail THEN {Failure} ELSE {}) :
          calls' = [calls EXCEPT ![p].pc = "ready", ![p].resp = r]
    /\ last' = Event("db_answer", calls[p].fn, calls[p].key, [p |-> p])
    /\ UNCHANGED <<now, tableStructures, mailboxIds, userQuotas, systemStats,
                   lastClearTime, db, passes, lruVars>>

\* the call ends: it rejects with the failure of the read, or resolves with v
Throw(c) ==
    [c EXCEPT !.pc = "threw", !.result = c.resp.val, !.resp = Null, !.tmp = 0]
Return(c, v) ==
    [c EXCEPT !.pc = "returned", !.result = v, !.resp = Null, !.tmp = 0, !.stage = 0]

\* getCachedTableStructure after the await: lines 42-59; a call made by hasColumn
\* hands the column list over and hasColumn stays suspended at line 70
ResumeTable(p) ==
    LET c == calls[p] IN
    /\ c.pc = "ready" /\ c.fn = "table"
    /\ IF c.resp.ok
       THEN LET cols == ToCols(c.resp.val) IN
            /\ tableStructures' = NsSet(tableStructures, c.key,
                                        [data |-> cols, timestamp |-> now])
            /\ calls' = [calls EXCEPT ![p] = Handed(c, cols)]
       ELSE /\ tableStructures' = tableStructures
            /\ calls' = [calls EXCEPT ![p] = Handed(c, << >>)]
    /\ last' = Event("resume", "tableStructures", c.key, [p |-> p, ok |-> c.resp.ok, stage |-> c.stage])
    /\ UNCHANGED <<now, mailboxIds, userQuotas, systemStats, lastClearTime, db, passes, lruVars>>

\* hasColumn after its await of line 70: line 71, on the column list it was handed
HasColumn(p) ==
    LET c == calls[p] IN
    /\ c.pc = "cols" /\ c.fn = "table"
    /\ calls' = [calls EXCEPT ![p] =
          [c EXCEPT !.pc = "returned", !.result = HasColumnResult(c.cols, c.col),
                    !.cols = << >>]]
    /\ last' = Event("has_column", "tableStructures", c.key, [p |-> p, cols |-> c.cols])
    /\ UNCHANGED <<now, tableStructures, mailboxIds, userQuotas, systemStats,
                   lastClearTime, db, passes, lruVars>>

\* getCachedMailboxId that caches only the identifiers it finds, never "not found"
ResumeMailbox_skipsNull(p) ==
    LET c == calls[p] IN
    /\ c.pc = "ready" /\ c.fn = "mailbox"
    /\ IF c.resp.ok
       THEN /\ mailboxIds' = IF c.resp.val = NullId
                             THEN mailboxIds
                             ELSE NsSet(mailboxIds, c.key,
                                        [id |-> c.resp.val, timestamp |-> now])
            /\ calls' = [calls EXCEPT ![p] = Return(c, c.resp.val)]
       ELSE /\ mailboxIds' = mailboxIds
            /\ calls' = [calls EXCEPT ![p] = Throw(c)]
    /\ last' = Event("resume", "mailboxIds", c.key, [p |-> p, ok |-> c.resp.ok, stage |-> c.stage])
    /\ UNCHANGED <<now, tableStructures, userQuotas, systemStats, lastClearTime, db, passes, lruVars>>

\* getCachedMailboxId that keeps the entry another call stored in the meantime
ResumeMailbox_firstWriterWins(p) ==
    LET c == calls[p] IN
    /\ c.pc = "ready" /\ c.fn = "mailbox"
    /\ IF c.resp.ok
       THEN /\ mailboxIds' = IF NsHas(mailboxIds, c.key)
                             THEN mailboxIds
                             ELSE NsSet(mailboxIds, c.key,
                                        [id |-> c.resp.val, timestamp |-> now])
            /\ calls' = [calls EXCEPT ![p] = Return(c, c.resp.val)]
       ELSE /\ mailboxIds' = mailboxIds
            /\ calls' = [calls EXCEPT ![p] = Throw(c)]
    /\ last' = Event("resume", "mailboxIds", c.key, [p |-> p, ok |-> c.resp.ok, stage |-> c.stage])
    /\ UNCHANGED <<now, tableStructures, userQuotas, systemStats, lastClearTime, db, passes, lruVars>>

\* getCachedMailboxId after the await: lines 91-99
ResumeMailbox(p) ==
    LET c == calls[p] IN
    /\ c.pc = "ready" /\ c.fn = "mailbox"
    /\ IF c.resp.ok
       THEN /\ mailboxIds' = NsSet(mailboxIds, c.key,
                                   [id |-> c.resp.val, timestamp |-> now])
            /\ calls' = [calls EXCEPT ![p] = Return(c, c.resp.val)]
       ELSE /\ mailboxIds' = mailboxIds
            /\ calls' = [calls EXCEPT ![p] = Throw(c)]
    /\ last' = Event("resume", "mailboxIds", c.key, [p |-> p, ok |-> c.resp.ok, stage |-> c.stage])
    /\ UNCHANGED <<now, tableStructures, userQuotas, systemStats, lastClearTime, db, passes, lruVars>>

\* getCachedUserQuota that, when its second query fails, caches used = 0 before throwing
ResumeQuota_cachesOnFailure(p) ==
    LET c == calls[p] IN
    /\ c.pc = "ready" /\ c.fn = "quota"
    /\ IF ~c.resp.ok
       THEN /\ userQuotas' = IF c.stage = 2
                             THEN NsSet(userQuotas, c.key,
                                        [data |-> [used |-> 0, limit |-> c.tmp],
                                         timestamp |-> now])
                             ELSE userQuotas
            /\ calls' = [calls EXCEPT ![p] = Throw(c)]
       ELSE IF c.stage = 1
       THEN /\ userQuotas' = userQuotas
            /\ calls' = [calls EXCEPT ![p].pc = "await", ![p].stage = 2,
                                      ![p].tmp = LimitOf(c.resp.val), ![p].resp = Null]
       ELSE LET data == [used |-> c.resp.val, limit |-> c.tmp] IN
            /\ userQuotas' = NsSet(userQuotas, c.key, [data |-> data, timestamp |-> now])
            /\ calls' = [calls EXCEPT ![p] = Return(c, data)]
    /\ last' = Event("resume", "userQuotas", c.key, [p |-> p, ok |-> c.resp.ok, stage |-> c.stage])
    /\ UNCHANGED <<now, tableStructures, mailboxIds, systemStats, lastClearTime, db, passes, lruVars>>

\* getCachedUserQuota after its first await (line 140) and after its second (142-152)
ResumeQuota(p) ==
    LET c == calls[p] IN
    /\ c.pc = "ready" /\ c.fn = "quota"
    /\ IF ~c.resp.ok
       THEN /\ userQuotas' = userQuotas
            /\ calls' = [calls EXCEPT ![p] = Throw(c)]
       ELSE IF c.stage = 1
       THEN /\ userQuotas' = userQuotas
            /\ calls' = [calls EXCEPT ![p].pc = "await", ![p].stage = 2,
                                      ![p].tmp = LimitOf(c.resp.val), ![p].resp = Null]
       ELSE LET data == [used |-> c.resp.val, limit |-> c.tmp] IN
            /\ userQuotas' = NsSet(userQuotas, c.key, [data |-> data, timestamp |-> now])
            /\ calls' = [calls EXCEPT ![p] = Return(c, data)]
    /\ last' = Event("resume", "userQuotas", c.key, [p |-> p, ok |-> c.resp.ok, stage |-> c.stage])
    /\ UNCHANGED <<now, tableStructures, mailboxIds, systemStats, lastClearTime, db, passes, lruVars>>

\* getCachedSystemStat that swallows a failed query and returns 0
ResumeStat_swallows(p) ==
    LET c == calls[p] IN
    /\ c.pc = "ready" /\ c.fn = "stat"
    /\ IF c.resp.ok
       THEN /\ systemStats' = NsSet(systemStats, c.key,
                                    [value |-> c.resp.val, timestamp |-> now])
            /\ calls' = [calls EXCEPT ![p] = Return(c, c.resp.val)]
       ELSE /\ systemStats' = systemStats
            /\ calls' = [calls EXCEPT ![p] = Return(c, 0)]
    /\ last' = Event("resume", "systemStats", c.key, [p |-> p, ok |-> c.resp.ok, stage |-> c.stage])
    /\ UNCHANGED <<now, tableStructures, mailboxIds, userQuotas, lastClearTime, db, passes, lruVars>>

\* getCachedSystemStat after the await: lines 180-185
ResumeStat(p) ==
    LET c == calls[p] IN
    /\ c.pc = "ready" /\ c.fn = "stat"
    /\ IF c.resp.ok
       THEN /\ systemStats' = NsSet(systemStats, c.key,
                                    [value |-> c.resp.val, timestamp |-> now])
            /\ calls' = [calls EXCEPT ![p] = Return(c, c.resp.val)]
       ELSE /\ systemStats' = systemStats
            /\ calls' = [calls EXCEPT ![p] = Throw(c)]
    /\ last' = Event("resume", "systemStats", c.key, [p |-> p, ok |-> c.resp.ok, stage |-> c.stage])
    /\ UNCHANGED <<now, tableStructures, mailboxIds, userQuotas, lastClearTime, db, passes, lruVars>>

-----------------------------------------------------------------------------
(* The synchronous operations on the namespaces *)

\* an identifier a caller may pass to updateMailboxIdCache
IdInputs == {NullId, 0, MailboxRowId}

\* updateMailboxIdCache that leaves an existing entry alone
UpdateMailboxIdCache_keepsExisting(address, id) ==
    LET normalized == Normalize(address) IN
    /\ mailboxIds' = IF normalized = << >> \/ Falsy(id) \/ NsHas(mailboxIds, normalized)
                     THEN mailboxIds
                     ELSE NsSet(mailboxIds, normalized, [id |-> id, timestamp |-> now])
    /\ last' = Event("update", "mailboxIds", normalized, id)
    /\ UNCHANGED <<now, tableStructures, userQuotas, systemStats, lastClearTime, db,
                   calls, passes, lruVars>>

\* updateMailboxIdCache without the !normalized test of line 109
UpdateMailboxIdCache_storesEmpty(address, id) ==
    LET normalized == Normalize(address) IN
    /\ mailboxIds' = IF Falsy(id)
                     THEN mailboxIds
                     ELSE NsSet(mailboxIds, normalized, [id |-> id, timestamp |-> now])
    /\ last' = Event("update", "mailboxIds", normalized, id)
    /\ UNCHANGED <<now, tableStructures, userQuotas, systemStats, lastClearTime, db,
                   calls, passes, lruVars>>

\* updateMailboxIdCache
UpdateMailboxIdCache(address, id) ==
    LET normalized == Normalize(address) IN
    /\ mailboxIds' = IF normalized = << >> \/ Falsy(id)
                     THEN mailboxIds
                     ELSE NsSet(mailboxIds, normalized, [id |-> id, timestamp |-> now])
    /\ last' = Event("update", "mailboxIds", normalized, id)
    /\ UNCHANGED <<now, tableStructures, userQuotas, systemStats, lastClearTime, db,
                   calls, passes, lruVars>>

\* invalidateMailboxCache
InvalidateMailboxCache(address) ==
    LET normalized == Normalize(address) IN
    /\ mailboxIds' = NsDelete(mailboxIds, normalized)
    /\ last' = Event("invalidate", "mailboxIds", normalized,
                     [had |-> NsHas(mailboxIds, normalized),
                      fresh |-> MailboxFresh(mailboxIds, normalized, now)])
    /\ UNCHANGED <<now, tableStructures, userQuotas, systemStats, lastClearTime, db,
                   calls, passes, lruVars>>

\* invalidateUserQuotaCache
InvalidateUserQuotaCache(userId) ==
    /\ userQuotas' = NsDelete(userQuotas, userId)
    /\ last' = Event("invalidate", "userQuotas", userId,
                     [had |-> NsHas(userQuotas, userId),
                      fresh |-> QuotaFresh(userQuotas, userId, now)])
    /\ UNCHANGED <<now, tableStructures, mailboxIds, systemStats, lastClearTime, db,
                   calls, passes, lruVars>>

\* invalidateSystemStatCache that ignores a call without a key
InvalidateSystemStatCache_keyedOnly(statKey) ==
    /\ IF statKey.type = "string" /\ statKey.chars # ""
       THEN /\ systemStats' = NsDelete(systemStats, statKey.chars)
            /\ last' = Event("invalidate", "systemStats", statKey.chars,
                             [had |-> NsHas(systemStats, statKey.chars),
                              fresh |-> StatFresh(systemStats, statKey.chars, now)])
       ELSE /\ systemStats' = systemStats
            /\ last' = Event("invalidate_all", "systemStats", Null,
                             [had |-> DOMAIN systemStats,
                              fresh |-> {k \in DOMAIN systemStats :
                                            StatFresh(systemStats, k, now)}])
    /\ UNCHANGED <<now, tableStructures, mailboxIds, userQuotas, lastClearTime, db,
                   calls, passes, lruVars>>

\* invalidateSystemStatCache: a falsy statKey (the default null) clears the namespace
InvalidateSystemStatCache(statKey) ==
    /\ IF statKey.type = "string" /\ statKey.chars # ""
       THEN /\ systemStats' = NsDelete(systemStats, statKey.chars)
            /\ last' = Event("invalidate", "systemStats", statKey.chars,
                             [had |-> NsHas(systemStats, statKey.chars),
                              fresh |-> StatFresh(systemStats, statKey.chars, now)])
       ELSE /\ systemStats' = EmptyNs
            /\ last' = Event("invalidate_all", "systemStats", Null,
                             [had |-> DOMAIN systemStats,
                              fresh |-> {k \in DOMAIN systemStats :
                                            StatFresh(systemStats, k, now)}])
    /\ UNCHANGED <<now, tableStructures, mailboxIds, userQuotas, lastClearTime, db,
                   calls, passes, lruVars>>

\* a gate that never closes
SweepGated_never(t, lastClear) == FALSE

\* the gate of clearExpiredCache: lines 207-209
SweepGated(t, lastClear) == t - lastClear < CACHE_TTL_clearInterval

\* a loop of clearExpiredCache that deletes every entry it visits
SweepNs_clears(m, t, ttl) == EmptyNs

\* a loop of clearExpiredCache with >= for the > of line 215
SweepNs_inclusive(m, t, ttl) ==
    [k \in {x \in DOMAIN m : ~(t - m[x].timestamp >= ttl)} |-> m[k]]

\* one loop of clearExpiredCache: delete the entries with now - timestamp > ttl
SweepNs(m, t, ttl) == [k \in {x \in DOMAIN m : ~(t - m[x].timestamp > ttl)} |-> m[k]]

\* the namespaces after the three loops of clearExpiredCache: lines 213-232
SweepPass(t, caches) ==
    [tableStructures |-> caches.tableStructures,
     mailboxIds |-> SweepNs(caches.mailboxIds, t, CACHE_TTL_mailboxId),
     userQuotas |-> SweepNs(caches.userQuotas, t, CACHE_TTL_userQuota),
     systemStats |-> SweepNs(caches.systemStats, t, CACHE_TTL_systemStats)]

Caches == [tableStructures |-> tableStructures, mailboxIds |-> mailboxIds,
           userQuotas |-> userQuotas, systemStats |-> systemStats]

\* clearExpiredCache
ClearExpiredCache ==
    /\ IF SweepGated(now, lastClearTime)
       THEN /\ UNCHANGED <<tableStructures, mailboxIds, userQuotas, systemStats,
                           lastClearTime, passes>>
            /\ last' = Event("sweep", "all", Null, FALSE)
       ELSE LET after == SweepPass(now, Caches) IN
            /\ lastClearTime' = now
            /\ tableStructures' = after.tableStructures
            /\ mailboxIds' = after.mailboxIds
            /\ userQuotas' = after.userQuotas
            /\ systemStats' = after.systemStats
            /\ passes' = passes \cup {now}
            /\ last' = Event("sweep", "all", Null, TRUE)
    /\ UNCHANGED <<now, db, calls, lruVars>>

\* clearAllCache
ClearAllCache ==
    /\ tableStructures' = EmptyNs
    /\ mailboxIds' = EmptyNs
    /\ userQuotas' = EmptyNs
    /\ systemStats' = EmptyNs
    /\ lastClearTime' = now
    /\ last' = Event("clear_all", "all", Null, Null)
    /\ UNCHANGED <<now, db, calls, passes, lruVars>>

-----------------------------------------------------------------------------
(* The write path of a caller: it creates the mailbox row of an address, awaits  *)
(* the write, then calls invalidateMailboxCache(address).                        *)

\* a call suspended at the await of its write
Writing(key) ==
    [fn |-> "write", key |-> key, col |-> NoCol, pc |-> "await", stage |-> 1,
     resp |-> Null, tmp |-> 0, cols |-> << >>, loads |-> 0, result |-> Null]

\* the write path up to its await: the INSERT is sent
StartWrite(p, address) ==
    LET normalized == Normalize(address) IN
    /\ Free(p)
    /\ normalized # << >>
    /\ db.mailboxes[normalized] = NullId
    /\ calls' = [calls EXCEPT ![p] = Writing(normalized)]
    /\ last' = Event("write_start", "mailboxIds", normalized, [p |-> p])
    /\ UNCHANGED <<now, tableStructures, mailboxIds, userQuotas, systemStats,
                   lastClearTime, db, passes, lruVars>>

\* the backing store applies the write and answers
DbApplyWrite(p) ==
    /\ calls[p].pc = "await" /\ calls[p].fn = "write"
    /\ db' = [db EXCEPT !.mailboxes[calls[p].key] = MailboxRowId]
    /\ calls' = [calls EXCEPT ![p].pc = "ready", ![p].resp = Ok(MailboxRowId)]
    /\ last' = Event("db_write", "mailboxIds", calls[p].key, [p |-> p])
    /\ UNCHANGED <<now, tableStructures, mailboxIds, userQuotas, systemStats,
                   lastClearTime, passes, lruVars>>

\* the write path after its await: invalidateMailboxCache(address), then it returns
ResumeWrite(p) ==
    LET c == calls[p] IN
    /\ c.pc = "ready" /\ c.fn = "write"
    /\ mailboxIds' = NsDelete(mailboxIds, c.key)
    /\ calls' = [calls EXCEPT ![p] = Return(c, c.resp.val)]
    /\ last' = Event("invalidate", "mailboxIds", c.key,
                     [had |-> NsHas(mailboxIds, c.key),
                      fresh |-> MailboxFresh(mailboxIds, c.key, now)])
    /\ UNCHANGED <<now, tableStructures, userQuotas, systemStats, lastClearTime, db,
                   passes, lruVars>>

\* the backing store answers the read of a get-or-load call
DbAnswerRead(p) == calls[p].fn # "write" /\ DbAnswer(p, FALSE)

-----------------------------------------------------------------------------
(* The clock *)

Tick(readings) ==
    /\ \E t \in readings : t > now /\ now' = t
    /\ last' = Event("tick", "clock", Null, Null)
    /\ UNCHANGED <<nsVars, lruVars>>

-----------------------------------------------------------------------------
(* Specifications *)

\* the state once the module is loaded
InitCaches ==
    /\ now = 0
    /\ tableStructures = EmptyNs
    /\ mailboxIds = EmptyNs
    /\ userQuotas = EmptyNs
    /\ systemStats = EmptyNs
    /\ lastClearTime = now
    /\ calls = [p \in Procs |-> IdleCall]
    /\ passes = {}
    /\ touchOrder = << >>
    /\ last = Event("init", "all", Null, Null)

InitDb ==
    db = [mailboxes |-> [k \in MailboxKeys |-> NullId], limit |-> NoRow, migrated |-> FALSE]

\* new LRUCache(capacity, ttl)
LRUCache(capacity, ttl) == [capacity |-> capacity, ttl |-> ttl, cache |-> << >>]

Init ==
    /\ InitCaches
    /\ InitDb
    /\ lru = LRUCache(MaxCapacity, EmailContentTtl)

InitLRU ==
    /\ InitCaches
    /\ InitDb
    /\ \E capacity \in 1..MaxCapacity : lru = LRUCache(capacity, EmailContentTtl)

NextLRU ==
    \/ \E id \in EmailIds, v \in Contents : LruSet(EmailKey(id), v)
    \/ \E id \in EmailIds : LruGet(EmailKey(id))
    \/ \E id \in EmailIds : LruDelete(EmailKey(id))
    \/ LruClear
    \/ Tick(LruClockReadings)

\* the caller of the runs with one request at a time
Caller == 1

Loads(p, mayFail) ==
    \/ \E t \in TableNames, c \in ColumnNames \cup {NoCol} : StartTable(p, t, c)
    \/ \E a \in LoadAddressInputs : StartMailbox(p, a)
    \/ \E u \in UserIds : StartQuota(p, u)
    \/ \E k \in StatKeys : StartStat(p, k)
    \/ DbAnswer(p, mayFail)
    \/ ResumeTable(p)
    \/ HasColumn(p)
    \/ ResumeMailbox(p)
    \/ ResumeQuota(p)
    \/ ResumeStat(p)

NextLoad ==
    \/ Loads(Caller, TRUE)
    \/ \E a \in LoadAddressInputs : InvalidateMailboxCache(a)
    \/ \E u \in UserIds : InvalidateUserQuotaCache(u)
    \/ \E k \in StatKeyInputs : InvalidateSystemStatCache(k)
    \/ Tick(LoadClockReadings)

NextMailbox ==
    \/ \E a \in AddressInputs : StartMailbox(Caller, a)
    \/ DbAnswer(Caller, TRUE)
    \/ ResumeMailbox(Caller)
    \/ \E a \in AddressInputs, id \in IdInputs : UpdateMailboxIdCache(a, id)
    \/ \E a \in AddressInputs : InvalidateMailboxCache(a)
    \/ \E k \in MailboxKeys : DbCreateMailbox(k)
    \/ Tick(MailboxClockReadings)

NextSweep ==
    \/ Loads(Caller, FALSE)
    \/ ClearExpiredCache
    \/ ClearAllCache
    \/ InvalidateSystemStatCache(JsNull)
    \/ DbMigrate
    \/ Tick(SweepClockReadings)

\* the instants of the runs that look at what a sweep removes: a pass is due at
\* 30, 35 and 40 minutes, when entries stored at 30 are exactly 5 and 10 minutes
\* old, the TTLs of the quota and of the address-id and statistic namespaces
ExpiryClockReadings == {0, 30 * Minute, 35 * Minute, 40 * Minute}

\* the sweep among loads of the four namespaces, with the LRU store in use
NextExpiry ==
    \/ \E t \in TableNames : StartTable(Caller, t, NoCol)
    \/ \E a \in LoadAddressInputs : StartMailbox(Caller, a)
    \/ \E u \in UserIds : StartQuota(Caller, u)
    \/ \E k \in StatKeys : StartStat(Caller, k)
    \/ DbAnswer(Caller, FALSE)
    \/ ResumeTable(Caller)
    \/ ResumeMailbox(Caller)
    \/ ResumeQuota(Caller)
    \/ ResumeStat(Caller)
    \/ ClearExpiredCache
    \/ \E v \in Contents : LruSet(EmailKey(1), v)
    \/ Tick(ExpiryClockReadings)

\* the addresses of the runs with overlapping requests: two keys
RaceAddressInputs == {JsStr(<<"a">>), JsStr(<<"B">>)}

\* the instants of those runs: the requests overlap well within every TTL
RaceClockReadings == {0, 5 * Minute}

\* requests that overlap at their awaits, with the write path running in between
NextRace ==
    \/ \E p \in Procs, a \in RaceAddressInputs : StartMailbox(p, a)
    \/ \E p \in Procs : DbAnswer(p, FALSE)
    \/ \E p \in Procs : ResumeMailbox(p)
    \/ \E a \in RaceAddressInputs : InvalidateMailboxCache(a)
    \/ \E a \in RaceAddressInputs : DbCreateMailbox(Normalize(a))
    \/ Tick(RaceClockReadings)

\* get-or-load calls that overlap with the write path of a caller
NextWritePath ==
    \/ \E p \in Procs, a \in RaceAddressInputs : StartMailbox(p, a)
    \/ \E p \in Procs : DbAnswerRead(p)
    \/ \E p \in Procs : ResumeMailbox(p)
    \/ \E p \in Procs, a \in RaceAddressInputs : StartWrite(p, a)
    \/ \E p \in Procs : DbApplyWrite(p)
    \/ \E p \in Procs : ResumeWrite(p)
    \/ Tick(RaceClockReadings)

\* get-or-load and invalidate on the four namespaces, one request at a time
SpecLoad == Init /\ [][NextLoad]_vars

\* the address-id namespace with its explicit set and a changing backing store
SpecMailbox == Init /\ [][NextMailbox]_vars

\* the sweep among loads of the four namespaces
SpecSweep == Init /\ [][NextSweep]_vars

\* what a sweep pass removes and keeps
SpecExpiry == Init /\ [][NextExpiry]_vars

\* an LRUCache instance on its own
SpecLRU == InitLRU /\ [][NextLRU]_vars

\* overlapping get-or-load calls on the address-id namespace
SpecRace == Init /\ [][NextRace]_vars

\* get-or-load calls on the address-id namespace among writes that invalidate
SpecWritePath == Init /\ [][NextWritePath]_vars

-----------------------------------------------------------------------------
(* Claims about the LRU store (SpecLRU) *)

NoDuplicates(order) == \A i, j \in 1..Len(order) : order[i] = order[j] => i = j
Elems(order) == {order[i] : i \in 1..Len(order)}

\* C1: in every state reachable by set, get, delete and clear, size() <= capacity,
\* and the recency order holds exactly the keys that have entries: none twice,
\* none missing.
C1_CapacityAndOrder ==
    /\ LRU_size(lru) <= lru.capacity
    /\ NoDuplicates(KeyOrder(lru.cache))
    /\ NoDuplicates(touchOrder)
    /\ Elems(touchOrder) = SeqKeys(lru.cache)

\* a set of a new key into a full store has just evicted, and the store is full again
C1_Witness ==
    /\ last.op = "lru_set"
    /\ ~last.res.had /\ last.res.full /\ last.res.evicted # {}
    /\ LRU_size(lru) = lru.capacity
    /\ lru.capacity > 1

\* C2: a set of a key that is not present into a store at capacity evicts exactly
\* the least-recently-touched key (touches: a get that hit, a set); a set of a key
\* that is present replaces its entry, makes it most recent and evicts nothing;
\* afterwards the Map holds the keys in the order of their last touch.
C2_EvictsLeastRecentlyTouched ==
    last.op = "lru_set" =>
        LET r == last.res
            e == MapGet(lru.cache, last.key)
        IN  /\ (~r.had /\ r.full) => r.evicted = {Head(r.before)}
            /\ (r.had \/ ~r.full) => r.evicted = {}
            /\ MapHas(lru.cache, last.key)
            /\ e.value = r.value /\ e.timestamp = now
            /\ KeyOrder(lru.cache) =
                   Touch(Restrict(r.before, Elems(r.before) \ r.evicted), last.key)

\* the scenario: capacity 3; set 1, set 2, set 3, get 1 leave the touch order
\* 2, 3, 1; set 4 has evicted 2 and left 3, 1, 4
C2_Witness ==
    /\ lru.capacity = 3
    /\ last.op = "lru_set" /\ last.key = EmailKey(4)
    /\ last.res.before = <<EmailKey(2), EmailKey(3), EmailKey(1)>>
    /\ last.res.evicted = {EmailKey(2)}
    /\ KeyOrder(lru.cache) = <<EmailKey(3), EmailKey(1), EmailKey(4)>>

-----------------------------------------------------------------------------
(* Claims about get-or-load on the four namespaces (SpecLoad) *)

Namespaces == {"tableStructures", "mailboxIds", "userQuotas", "systemStats"}

NsMap(ns) ==
    CASE ns = "tableStructures" -> tableStructures
      [] ns = "mailboxIds" -> mailboxIds
      [] ns = "userQuotas" -> userQuotas
      [] ns = "systemStats" -> systemStats

TtlOf(ns) ==
    CASE ns = "tableStructures" -> CACHE_TTL_tableStructure
      [] ns = "mailboxIds" -> CACHE_TTL_mailboxId
      [] ns = "userQuotas" -> CACHE_TTL_userQuota
      [] ns = "systemStats" -> CACHE_TTL_systemStats

\* what a call is handed when it is served from entry e of namespace ns
CachedValue(ns, e) ==
    CASE ns = "tableStructures" -> e.data
      [] ns = "mailboxIds" -> e.id
      [] ns = "userQuotas" -> e.data
      [] ns = "systemStats" -> e.value

\* the step taken last started a get-or-load on a well-formed key
StartedLast == last.op = "start" /\ ~(last.ns = "mailboxIds" /\ last.key = << >>)

\* the call got its value without a query: it has returned, or, for hasColumn,
\* it holds the column list getCachedTableStructure returned to it
ServedFromCache(c) ==
    c.pc = (IF c.col = NoCol THEN "returned" ELSE "cols") /\ c.loads = 0

\* the value the get-or-load function handed over
ValueHanded(c) == IF c.col = NoCol THEN c.result ELSE c.cols
LoaderInvoked(c) == c.pc = "await" /\ c.loads = 1

\* C3: in each namespace with TTL T, a get-or-load at t1 of a value stored at t0
\* returns it from the cache, loader not invoked, when t1 - t0 < T, and invokes
\* the loader when t1 - t0 >= T.
C3_TtlValidity ==
    StartedLast =>
        LET c == calls[last.res.p]
            m == NsMap(last.ns)
            k == last.key
        IN  /\ (k \in DOMAIN m /\ now - m[k].timestamp < TtlOf(last.ns)) =>
                   ServedFromCache(c) /\ ValueHanded(c) = CachedValue(last.ns, m[k])
            /\ (k \in DOMAIN m /\ now - m[k].timestamp >= TtlOf(last.ns)) =>
                   LoaderInvoked(c)

\* a schema entry aged exactly its TTL has just been treated as absent
C3_Witness ==
    /\ StartedLast /\ last.ns = "tableStructures"
    /\ last.key \in DOMAIN tableStructures
    /\ now - tableStructures[last.key].timestamp = CACHE_TTL_tableStructure
    /\ LoaderInvoked(calls[last.res.p])

\* a call started right after the invalidation of its own key, or of its namespace
AfterInvalidate ==
    /\ StartedLast
    /\ \/ /\ last.res.after.op = "invalidate"
          /\ last.res.after.ns = last.ns
          /\ last.res.after.key = last.key
       \/ /\ last.res.after.op = "invalidate_all"
          /\ last.res.after.ns = last.ns

cacheVars == <<tableStructures, mailboxIds, userQuotas, systemStats, lastClearTime>>

\* the step invalidates a key that has no entry
InvalidatesAbsent == last'.op = "invalidate" /\ ~last'.res.had

\* C4: a get-or-load of k that starts right after invalidate(k) invokes the loader,
\* whether the entry was fresh, expired or missing; invalidate(k) of a key with no
\* entry changes nothing.
C4_InvalidateForcesReload ==
    /\ [](AfterInvalidate => LoaderInvoked(calls[last.res.p]))
    /\ [][InvalidatesAbsent => UNCHANGED cacheVars]_vars

\* a load has started right after the invalidation of a fresh entry
C4_Witness ==
    /\ AfterInvalidate
    /\ last.res.after.op = "invalidate"
    /\ last.res.after.res.fresh
    /\ LoaderInvoked(calls[last.res.p])

\* the one step of a call that may write: its continuation after the read that
\* completes the load has succeeded
CompletesLoad(p) ==
    /\ calls[p].pc = "ready" /\ calls[p].resp.ok
    /\ calls'[p].pc \in {"returned", "cols"}

\* the step is one of a get-or-load call: its start, the answer to its query, or
\* a continuation
CallStep == last'.op \in {"start", "db_answer", "resume", "has_column"}

\* C5: a get-or-load whose backing-store read fails (the second quota query
\* included) leaves the entries of every namespace as they were: the only step of
\* a call that changes an entry is the one that completes a successful load.
C5_FailedLoadRecordsNothing ==
    [][(CallStep /\ ~CompletesLoad(last'.res.p)) =>
           UNCHANGED <<tableStructures, mailboxIds, userQuotas, systemStats>>]_vars

\* the second quota query has just failed and no quota entry exists
C5_Witness ==
    /\ last.op = "resume" /\ last.ns = "userQuotas"
    /\ ~last.res.ok /\ last.res.stage = 2
    /\ calls[last.res.p].pc = "threw"
    /\ userQuotas = EmptyNs

\* the step taken last continued a call whose read had failed
FailedLast == last.op = "resume" /\ ~last.res.ok

Rejected(c) == c.pc = "threw" /\ c.result = Failure.val

\* C6 as stated: in all four namespaces a failed read ends the call with that
\* failure, never with a normal value.
C6_FailurePropagatedEverywhere ==
    FailedLast => Rejected(calls[last.res.p])

\* the step taken last ran line 71 of hasColumn
HasColumnLast == last.op = "has_column"

\* C6 amended: the address-id, quota and statistic calls end with the failure of
\* the read; getCachedTableStructure catches it and returns the empty column list,
\* on which hasColumn then answers false.
C6_FailurePropagatedExceptSchema ==
    /\ FailedLast =>
          LET c == calls[last.res.p] IN
          IF last.ns = "tableStructures"
          THEN (c.pc = "returned" \/ c.pc = "cols") /\ ValueHanded(c) = << >>
          ELSE Rejected(c)
    /\ HasColumnLast =>
          LET c == calls[last.res.p] IN
          /\ c.pc = "returned"
          /\ c.result = HasColumnResult(last.res.cols, c.col)
          /\ (last.res.cols = << >> => c.result = FALSE)

\* hasColumn has just answered false on the empty column list it was handed
\* because the schema read failed (a read that succeeds lists the column id)
C6_Witness ==
    /\ HasColumnLast
    /\ last.res.cols = << >>
    /\ calls[last.res.p].col = "text_content"
    /\ calls[last.res.p].loads = 1
    /\ calls[last.res.p].pc = "returned"
    /\ calls[last.res.p].result = FALSE

-----------------------------------------------------------------------------
(* Claims about the address-id namespace (SpecMailbox) *)

\* the step taken last stored the result of a successful address lookup
LoadedMailboxLast == last.op = "resume" /\ last.ns = "mailboxIds" /\ last.res.ok

\* the call started last found a not-found entry younger than the TTL
FoundFreshNegative ==
    /\ StartedLast /\ last.ns = "mailboxIds"
    /\ last.key \in DOMAIN mailboxIds
    /\ mailboxIds[last.key].id = NullId
    /\ now - mailboxIds[last.key].timestamp < CACHE_TTL_mailboxId

\* C7: a not-found result of the loader is stored like a found one, and a second
\* get-or-load of the key within the TTL, not invalidated in between, returns
\* not-found without invoking the loader again (the first call's invocation stays
\* the only one).
C7_NegativeResultCached ==
    /\ LoadedMailboxLast =>
           /\ last.key \in DOMAIN mailboxIds
           /\ mailboxIds[last.key] = [id |-> calls[last.res.p].result, timestamp |-> now]
    /\ FoundFreshNegative =>
           /\ ServedFromCache(calls[last.res.p])
           /\ calls[last.res.p].result = NullId

\* five minutes after not-found was stored the second call is served from the
\* cache, although the mailbox exists by now
C7_Witness ==
    /\ FoundFreshNegative
    /\ now - mailboxIds[last.key].timestamp = 5 * Minute
    /\ ServedFromCache(calls[last.res.p])
    /\ calls[last.res.p].result = NullId
    /\ db.mailboxes[last.key] = MailboxRowId

\* a call started right after updateMailboxIdCache of its own key
AfterUpdate ==
    /\ StartedLast /\ last.ns = "mailboxIds"
    /\ last.res.after.op = "update"
    /\ last.res.after.key = last.key

\* C8 as stated: right after updateMailboxIdCache(k, v), v an identifier or the
\* not-found sentinel, a get-or-load of k returns v without invoking the loader.
C8_SetThenGetAnyValue ==
    (AfterUpdate /\ last.res.after.res \in {NullId, MailboxRowId}) =>
        /\ ServedFromCache(calls[last.res.p])
        /\ calls[last.res.p].result = last.res.after.res

\* C8 amended: that holds for every identifier v that is truthy (not null, not 0),
\* whatever entry k had before; with a falsy v updateMailboxIdCache writes nothing.
C8_SetThenGetIdentifier ==
    /\ []((AfterUpdate /\ ~Falsy(last.res.after.res)) =>
            /\ ServedFromCache(calls[last.res.p])
            /\ calls[last.res.p].result = last.res.after.res)
    /\ []((last.op = "update" /\ last.key # << >> /\ ~Falsy(last.res)) =>
            /\ last.key \in DOMAIN mailboxIds
            /\ mailboxIds[last.key] = [id |-> last.res, timestamp |-> now])
    /\ [][(last'.op = "update" /\ Falsy(last'.res)) => UNCHANGED mailboxIds]_vars

\* the identifier just set is served, though the backing store holds no such row
C8_Witness ==
    /\ AfterUpdate
    /\ last.res.after.res = MailboxRowId
    /\ ServedFromCache(calls[last.res.p])
    /\ calls[last.res.p].result = MailboxRowId
    /\ db.mailboxes[last.key] = NullId

-----------------------------------------------------------------------------
(* Claims about the sweep (SpecSweep) *)

\* the step is a call of clearExpiredCache
SweepStep == last'.op = "sweep"

\* C9: any two calls of clearExpiredCache that execute a pass are at least the
\* interval apart, whatever runs in between (clearAllCache included); a call made
\* when now - lastClearTime >= interval executes a pass and sets lastClearTime to
\* now; a gated call leaves lastClearTime and every entry unchanged.
C9_SweepRateLimit ==
    /\ [](\A t1, t2 \in passes : t1 < t2 => t2 - t1 >= CACHE_TTL_clearInterval)
    /\ [][SweepStep =>
            IF now - lastClearTime >= CACHE_TTL_clearInterval
            THEN last'.res /\ lastClearTime' = now /\ passes' = passes \cup {now}
            ELSE ~last'.res /\ UNCHANGED <<cacheVars, passes>>]_vars

\* two passes exactly one interval apart have run, the second one just now
C9_Witness ==
    /\ last.op = "sweep" /\ last.res
    /\ passes = {35 * Minute, 65 * Minute}
    /\ now = 65 * Minute

\* C10 as stated: right after a clearExpiredCache that passed the gate, no
\* namespace holds an entry older than its TTL.
C10_SweepCoversAllNamespaces ==
    (last.op = "sweep" /\ last.res) =>
        \A ns \in Namespaces : \A k \in DOMAIN NsMap(ns) :
            ~(now - NsMap(ns)[k].timestamp > TtlOf(ns))

-----------------------------------------------------------------------------
(* The capacity-2 scenario of the LRU store (SpecLRU) *)

\* the LRUCache c with its Map replaced
WithCache(c, cache) == [c EXCEPT !.cache = cache]

\* the Map of a new LRUCache of capacity 2 after set a, set b, get b, set c, all
\* at time t
ScenarioCache(a, b, c, t) ==
    LET c0 == LRUCache(2, EmailContentTtl)
        c1 == WithCache(c0, LRU_set(c0, t, a, "text"))
        c2 == WithCache(c1, LRU_set(c1, t, b, "text"))
        c3 == WithCache(c2, LRU_get(c2, t, b).cache)
    IN  LRU_set(c3, t, c, "text")

\* the store is in the state the scenario leaves with keys a, b, c, none expired
InScenario(a, b, c) ==
    /\ Cardinality({a, b, c}) = 3
    /\ lru.capacity = 2
    /\ \E t \in LruClockReadings :
          /\ t <= now /\ now - t <= lru.ttl
          /\ lru.cache = ScenarioCache(a, b, c, t)

\* the step is a set of key d
SetsKey(d) == last'.op = "lru_set" /\ last'.key = d

\* the step is a set on a full store of capacity 2
SetsOnFullPair == lru.capacity = 2 /\ LRU_size(lru) = 2 /\ last'.op = "lru_set"

\* C11 as stated: with capacity 2 and no expiry, set A, set B, get B, set C evicts
\* A, and a following set of a fourth key D evicts C and keeps B.
C11_ScenarioEvictsC ==
    [][SetsOnFullPair => \A a, b, c, d \in LruKeys :
          (SetsKey(d) /\ d \notin {a, b, c} /\ InScenario(a, b, c)) =>
              /\ SeqKeys(ScenarioCache(a, b, c, now)) = {b, c}
              /\ last'.res.evicted = {c}
              /\ MapHas(lru'.cache, b)]_vars

\* C11 amended: set A, set B, get B, set C evicts A and leaves B older than C, so
\* the following set D evicts B and keeps C: the store holds C, D in that order.
C11_ScenarioEvictsB ==
    [][SetsOnFullPair => \A a, b, c, d \in LruKeys :
          (SetsKey(d) /\ d \notin {a, b, c} /\ InScenario(a, b, c)) =>
              /\ KeyOrder(ScenarioCache(a, b, c, now)) = <<b, c>>
              /\ last'.res.evicted = {b}
              /\ KeyOrder(lru'.cache) = <<c, d>>]_vars

\* set 4 has just run on the store that set 1, set 2, get 2, set 3 left: key 2
\* is gone, 3 and 4 remain
C11_Witness ==
    /\ lru.capacity = 2
    /\ last.op = "lru_set" /\ last.key = EmailKey(4)
    /\ last.res.before = <<EmailKey(2), EmailKey(3)>>
    /\ lru.cache = LRU_set(WithCache(lru, ScenarioCache(EmailKey(1), EmailKey(2),
                                                        EmailKey(3), now)),
                           now, EmailKey(4), "text")
    /\ last.res.evicted = {EmailKey(2)}
    /\ KeyOrder(lru.cache) = <<EmailKey(3), EmailKey(4)>>

-----------------------------------------------------------------------------
(* Malformed addresses (SpecMailbox) *)

\* the step taken last was getCachedMailboxId with an address that normalizes to ''
StartedEmptyLast == last.op = "start" /\ last.ns = "mailboxIds" /\ last.key = << >>

\* the step is getCachedMailboxId or updateMailboxIdCache with such an address
EmptyAddressStep ==
    /\ last'.op \in {"start", "update"}
    /\ last'.ns = "mailboxIds"
    /\ last'.key = << >>

\* C12: for a null, empty or blank address getCachedMailboxId returns null with
\* no query sent to the backing store and whatever the cache holds, and
\* updateMailboxIdCache stores nothing; the address-id namespace never holds an
\* entry keyed on the empty string.
C12_MalformedKeyShortCircuit ==
    /\ [](~NsHas(mailboxIds, << >>))
    /\ [](StartedEmptyLast =>
            /\ ServedFromCache(calls[last.res.p])
            /\ calls[last.res.p].result = NullId)
    /\ [][EmptyAddressStep => UNCHANGED <<cacheVars, db>>]_vars

\* getCachedMailboxId of a blank address has just returned null, right after
\* updateMailboxIdCache was called with a blank address and a real identifier
C12_Witness ==
    /\ StartedEmptyLast
    /\ last.res.after.op = "update"
    /\ last.res.after.key = << >>
    /\ last.res.after.res = MailboxRowId
    /\ calls[last.res.p].pc = "returned"
    /\ calls[last.res.p].loads = 0
    /\ calls[last.res.p].result = NullId
    /\ mailboxIds = EmptyNs

-----------------------------------------------------------------------------
(* Clearing a whole namespace (SpecSweep) *)

\* a statistic call started right after invalidateSystemStatCache() emptied the
\* namespace that held its key
AfterInvalidateAll ==
    /\ StartedLast /\ last.ns = "systemStats"
    /\ last.res.after.op = "invalidate_all"
    /\ last.key \in last.res.after.res.had

\* C13: invalidateSystemStatCache() without a key leaves the statistic namespace
\* empty, so a get-or-load of a key it held invokes the loader, and leaves the
\* entries of the other three namespaces, the LRU store and lastClearTime as they
\* were; after clearAllCache() the four namespaces are empty.
C13_InvalidateAllFrame ==
    /\ [](last.op = "invalidate_all" => systemStats = EmptyNs)
    /\ [](AfterInvalidateAll => LoaderInvoked(calls[last.res.p]))
    /\ [][last'.op = "invalidate_all" =>
            UNCHANGED <<tableStructures, mailboxIds, userQuotas, lru, lastClearTime>>]_vars
    /\ [](last.op = "clear_all" =>
            /\ tableStructures = EmptyNs /\ mailboxIds = EmptyNs
            /\ userQuotas = EmptyNs /\ systemStats = EmptyNs)

\* the loader of a statistic runs again although its entry was fresh when
\* invalidateSystemStatCache() was called, and the other namespaces kept theirs
C13_Witness ==
    /\ AfterInvalidateAll
    /\ last.key \in last.res.after.res.fresh
    /\ LoaderInvoked(calls[last.res.p])
    /\ tableStructures # EmptyNs /\ mailboxIds # EmptyNs /\ userQuotas # EmptyNs

-----------------------------------------------------------------------------
(* Overlapping get-or-load calls (SpecRace) *)

\* call p went to the backing store and has returned what it read
LoadedAndReturned(p) == calls[p].pc = "returned" /\ calls[p].loads = 1

\* two calls on one key have both invoked the loader and both completed; the
\* step taken last is the continuation of the one that wrote last
BothLoadedLast ==
    /\ LoadedMailboxLast
    /\ \E q \in Procs \ {last.res.p} :
          /\ calls[q].fn = "mailbox" /\ calls[q].key = last.key
          /\ LoadedAndReturned(q)
    /\ LoadedAndReturned(last.res.p)

\* the step stores the result of an address lookup
StoresMailbox == last'.op = "resume" /\ last'.ns = "mailboxIds" /\ last'.res.ok

\* C14: two get-or-load calls of one uncached key that overlap at the await both
\* query the backing store; once both have completed the namespace holds, under
\* that key, the value and the timestamp of the call that wrote last, and each
\* write leaves the entries of all other keys as they were.
C14_LastWriterWins ==
    /\ [](BothLoadedLast =>
            /\ NsHas(mailboxIds, last.key)
            /\ mailboxIds[last.key] =
                   [id |-> calls[last.res.p].result, timestamp |-> now])
    /\ [][StoresMailbox =>
            /\ DOMAIN mailboxIds' = DOMAIN mailboxIds \cup {last'.key}
            /\ \A k \in DOMAIN mailboxIds \ {last'.key} :
                   mailboxIds'[k] = mailboxIds[k]]_vars

\* both calls missed and queried: one read before the mailbox was created, the
\* other after; the one that read first wrote last, five minutes in, so the
\* entry says not-found although the row exists, and the other key kept its entry
C14_Witness ==
    /\ BothLoadedLast
    /\ calls[last.res.p].result = NullId
    /\ \E q \in Procs \ {last.res.p} : calls[q].result = MailboxRowId
    /\ db.mailboxes[last.key] = MailboxRowId
    /\ mailboxIds[last.key] = [id |-> NullId, timestamp |-> 5 * Minute]
    /\ \E k \in DOMAIN mailboxIds \ {last.key} : mailboxIds[k].timestamp = 0

-----------------------------------------------------------------------------
(* Invalidation and calls in flight (SpecWritePath) *)

\* the write path of call q for key k has completed: the row is written and
\* invalidateMailboxCache(k) has run after it
WriteCompleted(q, k) ==
    calls[q].fn = "write" /\ calls[q].key = k /\ calls[q].pc = "returned"

\* a call of getCachedMailboxId has just started on a key whose write and
\* invalidation had completed before
StartedAfterWrite ==
    /\ StartedLast /\ last.ns = "mailboxIds"
    /\ \E q \in Procs \ {last.res.p} : WriteCompleted(q, last.key)

\* C15 as stated: once the write to the record of k and the invalidate(k) that
\* follows it have completed, every get-or-load of k that starts afterwards
\* returns the written value, also when another get-or-load of k read the
\* backing store before the write and stores its result after the invalidate:
\* the call that starts afterwards either queries the backing store, which holds
\* the written row, or is served the written row from the cache.
C15_InvalidationNotUndone ==
    StartedAfterWrite =>
        \/ LoaderInvoked(calls[last.res.p])
        \/ /\ ServedFromCache(calls[last.res.p])
           /\ calls[last.res.p].result = db.mailboxes[last.key]

-----------------------------------------------------------------------------
(* Expiry in the LRU store (SpecLRU) *)

\* the entries of the keys ks are the same before and after the step
SameEntries(ks) ==
    \A k \in ks : MapHas(lru'.cache, k) /\ MapGet(lru'.cache, k) = MapGet(lru.cache, k)

\* C16: LRUCache.get(key) returns null when the key is missing or when
\* now - timestamp > ttl, and then that same call removes the entry (the size
\* drops by one, the key leaves the recency order); when now - timestamp <= ttl
\* it returns the stored value and moves the key to the most recent position,
\* the other keys keeping their relative order and every entry its content.
C16_ExpiredReadRemoves ==
    [][last'.op = "lru_get" =>
         LET key == last'.key
             others == SeqKeys(lru.cache) \ {key}
         IN  IF ~MapHas(lru.cache, key)
             THEN /\ last'.res.result = Null
                  /\ lru' = lru /\ touchOrder' = touchOrder
             ELSE IF now - MapGet(lru.cache, key).timestamp > lru.ttl
             THEN /\ last'.res.result = Null
                  /\ LRU_size(lru') = LRU_size(lru) - 1
                  /\ ~MapHas(lru'.cache, key)
                  /\ KeyOrder(lru'.cache) = Restrict(KeyOrder(lru.cache), others)
                  /\ touchOrder' = Restrict(touchOrder, others)
                  /\ SameEntries(others)
             ELSE /\ last'.res.result = MapGet(lru.cache, key).value
                  /\ KeyOrder(lru'.cache) = Touch(KeyOrder(lru.cache), key)
                  /\ touchOrder' = Touch(touchOrder, key)
                  /\ SameEntries(SeqKeys(lru.cache))]_vars

\* a get has just found its entry 65 minutes old, returned null and removed it,
\* while another entry stays
C16_Witness ==
    /\ last.op = "lru_get"
    /\ last.res.had /\ last.res.age = 65 * Minute
    /\ last.res.result = Null
    /\ ~MapHas(lru.cache, last.key)
    /\ last.key \notin Elems(touchOrder)
    /\ LRU_size(lru) = Len(last.res.before) - 1
    /\ LRU_size(lru) > 0

\* C18: a get that returns a value leaves the entry's timestamp as it was: the
\* timestamp of an entry is the instant of the most recent set of its key
\* through every step, so get never returns a value later than ttl after that
\* set, however often the key was read in between.
C18_ReadsDoNotExtendLifetime ==
    /\ [][\A k \in SeqKeys(lru'.cache) :
            IF last'.op = "lru_set" /\ last'.key = k
            THEN MapGet(lru'.cache, k).timestamp = now
            ELSE /\ MapHas(lru.cache, k)
                 /\ MapGet(lru'.cache, k).timestamp = MapGet(lru.cache, k).timestamp]_vars
    /\ []((last.op = "lru_get" /\ last.res.result # Null) =>
            /\ last.res.had /\ last.res.age <= lru.ttl
            /\ MapHas(lru.cache, last.key)
            /\ now - MapGet(lru.cache, last.key).timestamp = last.res.age)

\* a key set at 0 was read after another key was set at 5 minutes (it was the
\* most recently touched of the two), and its get at 65 minutes returned null
C18_Witness ==
    /\ last.op = "lru_get"
    /\ now = 65 * Minute
    /\ last.res.had /\ last.res.age = 65 * Minute
    /\ last.res.result = Null
    /\ Len(last.res.before) = 2
    /\ last.res.before[2] = last.key
    /\ MapHas(lru.cache, last.res.before[1])
    /\ MapGet(lru.cache, last.res.before[1]).timestamp = 5 * Minute

\* the step is a set of a new key into a store at capacity
SetEvicts == last'.op = "lru_set" /\ ~last'.res.had /\ last'.res.full

\* C20 as stated: a set of a new key at capacity never evicts an entry that is
\* unexpired (now - timestamp <= ttl) while an expired entry
\* (now - timestamp > ttl) remains in the store.
C20_EvictionPrefersExpired ==
    (last.op = "lru_set" /\ \E a \in last.res.evictedAge : a <= lru.ttl) =>
        ~\E i \in 1..Len(lru.cache) : now - lru.cache[i].timestamp > lru.ttl

\* C20 amended: a set of a new key at capacity evicts the first key of the Map,
\* the least recently touched one, whatever the ages: every other entry,
\* expired or not, stays as it was.
C20_EvictionIgnoresExpiry ==
    [][SetEvicts =>
         /\ last'.res.evicted = {FirstKey(lru.cache)}
         /\ FirstKey(lru.cache) = Head(touchOrder)
         /\ SameEntries(SeqKeys(lru.cache) \ {FirstKey(lru.cache)})]_vars

\* an entry exactly ttl old, unexpired, has just been evicted while an entry 65
\* minutes old, expired, stays in the store
C20_Witness ==
    /\ last.op = "lru_set" /\ ~last.res.had /\ last.res.full
    /\ last.res.evictedAge = {EmailContentTtl}
    /\ \E i \in 1..Len(lru.cache) : now - lru.cache[i].timestamp = 65 * Minute

-----------------------------------------------------------------------------
(* What a sweep pass removes and keeps (SpecExpiry) *)

\* the step is a call of clearExpiredCache that passed the gate
SweepPassStep == last'.op = "sweep" /\ last'.res

\* the step taken last is such a call
SweptLast == last.op = "sweep" /\ last.res

\* the three namespaces clearExpiredCache visits
SweptNamespaces == {"mailboxIds", "userQuotas", "systemStats"}

\* the age of the entry of key k in namespace ns
Age(ns, k) == now - NsMap(ns)[k].timestamp

\* C17: a sweep pass at time now removes no entry that is still valid
\* (now - timestamp < the TTL of its namespace), adds none, leaves the value and
\* the timestamp of every entry it keeps, and leaves the LRU store alone.
C17_SweepKeepsValid ==
    [][SweepPassStep =>
         /\ \A ns \in Namespaces :
               /\ DOMAIN NsMap(ns)' \subseteq DOMAIN NsMap(ns)
               /\ \A k \in DOMAIN NsMap(ns) :
                     /\ Age(ns, k) < TtlOf(ns) => k \in DOMAIN NsMap(ns)'
                     /\ k \in DOMAIN NsMap(ns)' => NsMap(ns)'[k] = NsMap(ns)[k]
         /\ UNCHANGED <<lru, touchOrder>>]_vars

\* the pass at 35 minutes has kept the address and statistic entries stored at
\* 30 minutes, and the LRU store still holds its entry
C17_Witness ==
    /\ SweptLast
    /\ now = 35 * Minute
    /\ \E k \in DOMAIN mailboxIds : Age("mailboxIds", k) = 5 * Minute
    /\ \E k \in DOMAIN systemStats : Age("systemStats", k) = 5 * Minute
    /\ tableStructures # EmptyNs
    /\ LRU_size(lru) = 1

\* C19 as stated: right after a sweep pass at time now, every entry left in the
\* address-id, quota and statistic namespaces is one a get-or-load at that same
\* time would serve from the cache, an entry aged exactly the TTL included.
C19_SweepAgreesWithRead ==
    SweptLast =>
        /\ \A k \in DOMAIN mailboxIds : MailboxFresh(mailboxIds, k, now)
        /\ \A k \in DOMAIN userQuotas : QuotaFresh(userQuotas, k, now)
        /\ \A k \in DOMAIN systemStats : StatFresh(systemStats, k, now)

\* C19 amended: a sweep pass keeps exactly the entries of those namespaces with
\* now - timestamp <= TTL, so afterwards none is older than its TTL; an entry
\* aged exactly the TTL stays, though a get-or-load treats it as expired.
C19_SweepKeepsUpToTtl ==
    /\ [](SweptLast =>
            \A ns \in SweptNamespaces : \A k \in DOMAIN NsMap(ns) :
                Age(ns, k) <= TtlOf(ns))
    /\ [][SweepPassStep =>
            \A ns \in SweptNamespaces : \A k \in DOMAIN NsMap(ns) :
                k \in DOMAIN NsMap(ns)' <=> Age(ns, k) <= TtlOf(ns)]_vars

\* the pass at 35 minutes has kept the quota stored at 30 minutes, exactly the
\* TTL old, which getCachedUserQuota would not serve
C19_Witness ==
    /\ SweptLast
    /\ now = 35 * Minute
    /\ \E k \in DOMAIN userQuotas :
          /\ userQuotas[k].timestamp = 30 * Minute
          /\ Age("userQuotas", k) = CACHE_TTL_userQuota
          /\ ~QuotaFresh(userQuotas, k, now)

====
